---- MODULE Spec2Model ----
(***************************************************************************)
(* CodePal (src/src/extension.ts): a sidebar view that shows an image of   *)
(* the active "pal", chosen by the number of errors in the open file.      *)
(*                                                                         *)
(* The module models the extension host side (module state, the command    *)
(* handlers with their await points, getPicture), the message channel to   *)
(* the webview and the webview's message listener.                         *)
(***************************************************************************)
EXTENDS Integers, Sequences, FiniteSets, TLC

(***************************************************************************)
(* Bounds of the model.                                                    *)
(***************************************************************************)
\* largest error count the diagnostics source reports in Spec
MaxErrors == 1
\* Spec: messages that may still be unhandled by the webview when the next
\* event or command step runs
MaxBacklog == 0
\* SpecLevel: largest error count, panic limit and level folder number
MaxErrorsLevel == 23
MaxLimitLevel == 22
MaxLevel == 22
\* SpecLevel: every non-empty subset of 0..MaxSmallLevel is a level set
MaxSmallLevel == 3
\* SpecConfig: longest text typed into the input box of set-panic-limit
MaxInputLen == 3

(***************************************************************************)
(* Values of the JavaScript side.                                          *)
(***************************************************************************)
Undefined == "undefined"
Null == "null"
\* the empty string returned by getPicture when there is no image
NoPicture == <<>>
\* currentSrc = null in the webview (after a reset)
NullSrc == <<"null">>
\* targetLevel when getPicture returns before selecting a level
NoLevel == -1

(***************************************************************************)
(* IEEE-754 double arithmetic of line 334,                                 *)
(*    Math.floor((errorsNum / panicLimit) * maxLevel)                      *)
(* A positive double is <<hi, mid, lo, scale>>: its 53-bit significand is  *)
(* N = hi * 2^40 + mid * 2^20 + lo with 2^12 <= hi < 2^13 and mid, lo <    *)
(* 2^20 (limbs, so that every intermediate value fits a 32-bit integer),   *)
(* and its value is N * 2^(-scale).  Rounding is round-to-nearest-even.    *)
(* The operands are integers below 2^10.                                   *)
(***************************************************************************)
HiBits == 13
LimbBits == 20

RECURSIVE Pow2(_)
Pow2(n) == IF n = 0 THEN 1 ELSE 2 * Pow2(n - 1)

Limb == Pow2(LimbBits)
HiLimb == Pow2(HiBits)

RECURSIVE LeadShift(_, _)
\* number of zero bits after the binary point of r / p, for 0 < r < p
LeadShift(r, p) == IF 2 * r >= p THEN 0 ELSE 1 + LeadShift(2 * r, p)

RECURSIVE BitLen(_)
BitLen(n) == IF n = 0 THEN 0 ELSE 1 + BitLen(n \div 2)

\* N + 1 when roundUp, renormalised when the significand overflows to 2^53
RoundUp(hi, mid, lo, scale, roundUp) ==
  IF ~roundUp THEN <<hi, mid, lo, scale>>
  ELSE IF lo + 1 < Limb THEN <<hi, mid, lo + 1, scale>>
  ELSE IF mid + 1 < Limb THEN <<hi, mid + 1, 0, scale>>
  ELSE IF hi + 1 < HiLimb THEN <<hi + 1, 0, 0, scale>>
  ELSE <<HiLimb \div 2, 0, 0, scale - 1>>

\* errorsNum / panicLimit as a double, for 0 < errorsNum < panicLimit
DoubleDiv(e, p) ==
  LET z == LeadShift(e, p)
      r0 == e * Pow2(z)
      hi == (r0 * HiLimb) \div p
      r1 == (r0 * HiLimb) % p
      mid == (r1 * Limb) \div p
      r2 == (r1 * Limb) % p
      lo == (r2 * Limb) \div p
      r3 == (r2 * Limb) % p
      roundBit == IF 2 * r3 >= p THEN 1 ELSE 0
      sticky == (2 * r3 - roundBit * p) # 0
  IN RoundUp(hi, mid, lo, z + HiBits + 2 * LimbBits,
             roundBit = 1 /\ (sticky \/ lo % 2 = 1))

\* x * m as a double, for a positive double x and an integer m >= 1
DoubleMul(x, m) ==
  LET pl == x[3] * m
      pm == x[2] * m + pl \div Limb
      ph == x[1] * m + pm \div Limb
      l == pl % Limb
      md == pm % Limb
      s == BitLen(ph) - HiBits
      d == Pow2(s)
      up == Limb \div d
      dropped == l % d
      roundBit == IF s = 0 THEN 0 ELSE dropped \div (d \div 2)
      sticky == s > 0 /\ dropped % (d \div 2) # 0
      lo == l \div d + (md % d) * up
      mid == md \div d + (ph % d) * up
      hi == ph \div d
  IN RoundUp(hi, mid, lo, x[4] - s, roundBit = 1 /\ (sticky \/ lo % 2 = 1))

\* Math.floor of a positive double below 2^13
DoubleFloor(x) ==
  LET intBits == HiBits + 2 * LimbBits - x[4]
  IN IF intBits <= 0 THEN 0 ELSE x[1] \div Pow2(HiBits - intBits)

\* Math.floor((errorsNum / panicLimit) * maxLevel), 0 < errorsNum < panicLimit
ScaledLevel(errorsNum, limit, maxLevel) ==
  IF maxLevel = 0 THEN 0
  ELSE DoubleFloor(DoubleMul(DoubleDiv(errorsNum, limit), maxLevel))

Min(a, b) == IF a <= b THEN a ELSE b
Max(a, b) == IF a >= b THEN a ELSE b

\* mutant of SetMax: the folder list is read from the wrong end
SetMax_First(S) == CHOOSE x \in S : \A y \in S : x <= y

\* subDirs[subDirs.length - 1] of the ascending list (lines 324, 328)
SetMax(S) == CHOOSE x \in S : \A y \in S : y <= x

\* mutant of selectLevel: the lower clamp Math.max(1, ...) is missing
selectLevel_NoLowerClamp(errorsNum, limit, maxLevel) ==
  IF errorsNum >= limit THEN maxLevel
  ELSE IF errorsNum > 0
       THEN Min(ScaledLevel(errorsNum, limit, maxLevel), maxLevel)
       ELSE 0

\* mutant of selectLevel: the clamps are applied in the other order
selectLevel_LowerClampLast(errorsNum, limit, maxLevel) ==
  IF errorsNum >= limit THEN maxLevel
  ELSE IF errorsNum > 0
       THEN Max(1, Min(ScaledLevel(errorsNum, limit, maxLevel), maxLevel))
       ELSE 0

\* mutant of selectLevel: zero errors are scaled and clamped like any count
selectLevel_ZeroClamped(errorsNum, limit, maxLevel) ==
  IF errorsNum >= limit THEN maxLevel
  ELSE IF errorsNum > 0
       THEN Min(Max(1, ScaledLevel(errorsNum, limit, maxLevel)), maxLevel)
       ELSE Min(1, maxLevel)

\* mutant of selectLevel: the scale runs downwards
selectLevel_Inverted(errorsNum, limit, maxLevel) ==
  IF errorsNum >= limit THEN maxLevel
  ELSE IF errorsNum > 0
       THEN Min(Max(1, maxLevel - ScaledLevel(errorsNum, limit, maxLevel)),
                maxLevel)
       ELSE 0

\* lines 328-336 of getPicture: the level chosen for an error count
selectLevel(errorsNum, limit, maxLevel) ==
  IF errorsNum >= limit THEN maxLevel
  ELSE IF errorsNum > 0
       THEN Min(Max(1, ScaledLevel(errorsNum, limit, maxLevel)), maxLevel)
       ELSE 0
(***************************************************************************)
(* The pals directory.  A pal folder is a function from its numbered level *)
(* folders to the number of image files in each.                           *)
(***************************************************************************)
\* pal names, in the order readdirSync lists them
PalNames == <<"a", "b", "c">>
NameSet == {PalNames[i] : i \in 1..Len(PalNames)}
\* the pal names Spec works with
SpecNames == {"a", "b"}

ExampleLayout == (0 :> 1) @@ (1 :> 1) @@ (2 :> 1)
OnlyZeroLayout == (0 :> 2)
NoZeroLayout == (1 :> 0) @@ (2 :> 1)
NoLevelsLayout == [l \in {} |-> 0]
Layouts == {ExampleLayout, OnlyZeroLayout, NoZeroLayout, NoLevelsLayout}

\* assets/template-pal: <<layout>>, or NoTemplate when the folder is missing
NoTemplate == <<>>
TemplateLayout == ExampleLayout

VARIABLES
  disk,            \* pals directory: pal name -> layout of its folder
  template,        \* assets/template-pal: <<layout>> or NoTemplate
  persisted,       \* globalState 'activePalName'
  panicLimit,      \* configuration codepal.panicLimit
  numErrors,       \* errors of the active editor, as getNumErrors reads them
  pals,            \* module variable pals (sequence of pal names)
  activePal,       \* module variable activePal (a pal name or Undefined)
  currentWebview,  \* TRUE once resolveWebviewView has run
  title,           \* currentWebviewView.title
  lastNumErrors,   \* closure variable of resolveWebviewView
  currentPicture,  \* closure variable of resolveWebviewView
  regPc,           \* registerPal: "idle", "input" (showInputBox), "info"
  choose,          \* choosePal: [pc, items] ("idle" or "pick")
  del,             \* deletePal: [pc, items, target] ("idle", "pick", "confirm")
  queue,           \* messages posted to the webview, not yet handled
  wv,              \* webview script state
  targetLevel,     \* targetLevel of the latest getPicture call
  last             \* the latest step: <<operation, argument>>

vars == <<disk, template, persisted, panicLimit, numErrors, pals, activePal,
          currentWebview, title, lastNumErrors, currentPicture, regPc, choose,
          del, queue, wv, targetLevel, last>>

(***************************************************************************)
(* Helpers of the extension.                                               *)
(***************************************************************************)
\* loadPals: the sub-directories of the pals root
loadPals(dk) == SelectSeq(PalNames, LAMBDA n : n \in DOMAIN dk)

InSeq(x, s) == \E i \in 1..Len(s) : s[i] = x

\* mutant of FindPal: no pal is ever found
FindPal_Never(ps, name) == Undefined

\* pals.find(p => p.name === name)
FindPal(ps, name) == IF InSeq(name, ps) THEN name ELSE Undefined

\* mutant of FirstPal: the last pal of the list is taken
FirstPal_Last(ps) == IF Len(ps) > 0 THEN ps[Len(ps)] ELSE Undefined

\* pals.length > 0 ? pals[0] : undefined
FirstPal(ps) == IF Len(ps) > 0 THEN ps[1] ELSE Undefined

\* mutant of RestoreActivePal: the saved name is ignored
RestoreActivePal_First(ps, savedPalName) == FirstPal(ps)

\* lines 26-36 of activate: the active pal restored from the saved name
RestoreActivePal(ps, savedPalName) ==
  IF savedPalName \notin {Undefined, ""}
  THEN IF FindPal(ps, savedPalName) # Undefined
       THEN FindPal(ps, savedPalName)
       ELSE FirstPal(ps)
  ELSE FirstPal(ps)

\* the title shown for an active pal (lines 77, 258)
TitleOf(ap) == IF ap # Undefined THEN ap ELSE "none"

\* getPicture (lines 316-347): the possible <<targetLevel, image reference>>;
\* the image is picked at random among the files of the target folder.  The
\* reference is the webview URI of pals/<pal>/<level>/<file>.  readdirSync of
\* a missing pal folder throws; ActivePalOnDisk shows it is never called so.
getPicture(ap, dk, errorsNum, limit) ==
  IF ap = Undefined \/ ap \notin DOMAIN dk THEN {<<NoLevel, NoPicture>>}
  ELSE LET subDirs == DOMAIN dk[ap] IN
    IF subDirs = {} THEN {<<NoLevel, NoPicture>>}
    ELSE LET maxLevel == SetMax(subDirs)
             level == selectLevel(errorsNum, limit, maxLevel)
         IN IF level \notin subDirs THEN {<<level, NoPicture>>}
            ELSE IF dk[ap][level] = 0 THEN {<<level, NoPicture>>}
            ELSE {<<level, <<ap, level, i>>>> : i \in 1..dk[ap][level]}

\* the messages of the protocol
DataMsg(errs, pic, ap) ==
  [resetCurrentSrc |-> FALSE, numErrors |-> errs, currentPicture |-> pic,
   activePalName |-> ap]
ResetMsg(ap) == [resetCurrentSrc |-> TRUE, activePalName |-> ap]

\* refreshWebview (lines 283-296) with active pal ap and pals directory dk:
\* the possible <<targetLevel, messages posted>>, tl being the targetLevel of
\* the previous getPicture call
refreshWebview(ap, dk, tl) ==
  IF ~currentWebview THEN {<<tl, <<>>>>}
  ELSE IF ap = Undefined
  THEN {<<tl, <<DataMsg(numErrors, NoPicture, ap)>>>>}
  ELSE {<<r[1], <<DataMsg(numErrors, r[2], ap)>>>> :
          r \in getPicture(ap, dk, numErrors, panicLimit)}

\* mutant of resetWebview: no reset is posted
resetWebview_Never(name) == <<>>

\* lines 152-154, 204-206, 248-250: the reset posted when a webview exists
resetWebview(name) == IF currentWebview THEN <<ResetMsg(name)>> ELSE <<>>

\* the webview has caught up enough for the next step of the extension
CaughtUp == Len(queue) <= MaxBacklog

IdleChoose == [pc |-> "idle", items |-> <<>>]
IdleDel == [pc |-> "idle", items |-> <<>>, target |-> Undefined]

\* lines 400, 412-414: the script's variables and what the page shows
InitWv == [currentSrc |-> NoPicture, currentPal |-> Null, showingPic1 |-> TRUE,
           visible |-> NoPicture, errorsText |-> 0]
(***************************************************************************)
(* activate (lines 16-36): the state after construction.                   *)
(***************************************************************************)
\* configured panic limits Spec starts from
PanicLimits == {2}

\* every pals directory over the pal names of Spec
Disks == UNION {[S -> Layouts] : S \in SUBSET SpecNames}

Activated ==
  /\ pals = loadPals(disk)
  /\ activePal = RestoreActivePal(loadPals(disk), persisted)
  /\ currentWebview = FALSE
  /\ title = "none"
  /\ lastNumErrors = -1
  /\ currentPicture = NoPicture
  /\ regPc = "idle"
  /\ choose = IdleChoose
  /\ del = IdleDel
  /\ queue = <<>>
  /\ wv = InitWv
  /\ targetLevel = NoLevel
  /\ last = <<"activate", Undefined>>

\* Spec starts with the template folder present (SpecStore covers its absence)
Init ==
  /\ disk \in Disks
  /\ template = <<TemplateLayout>>
  /\ persisted \in {Undefined, ""} \cup SpecNames
  /\ panicLimit \in PanicLimits
  /\ numErrors = 0
  /\ Activated

(***************************************************************************)
(* The webview provider and the diagnostics events (lines 70-105).         *)
(***************************************************************************)
\* updateDiagnostics (lines 84-97) for the error count errs: the picture is
\* recomputed only when the count changed or no picture is cached
updateDiagnostics(errs, lastErrs, curPic) ==
  \E r \in IF errs # lastErrs \/ curPic = NoPicture
           THEN getPicture(activePal, disk, errs, panicLimit)
           ELSE {<<targetLevel, curPic>>} :
    /\ lastNumErrors' = errs
    /\ currentPicture' = r[2]
    /\ targetLevel' = r[1]
    /\ queue' = queue \o <<DataMsg(errs, r[2], activePal)>>

\* resolveWebviewView: the view becomes visible for the first time
resolveWebviewView ==
  /\ ~currentWebview
  /\ CaughtUp
  /\ currentWebview' = TRUE
  /\ title' = TitleOf(activePal)
  /\ wv' = InitWv
  /\ updateDiagnostics(numErrors, -1, NoPicture)
  /\ last' = <<"resolve", Undefined>>
  /\ UNCHANGED <<disk, template, persisted, panicLimit, numErrors, pals,
                 activePal, regPc, choose, del>>

\* onDidChangeDiagnostics / onDidChangeActiveTextEditor: the error count of the
\* active editor becomes n (possibly the same count)
DiagnosticsChanged(n) ==
  /\ numErrors' = n
  /\ IF currentWebview
     THEN CaughtUp /\ updateDiagnostics(n, lastNumErrors, currentPicture)
     ELSE UNCHANGED <<lastNumErrors, currentPicture, targetLevel, queue>>
  /\ last' = <<"diagnostics", Undefined>>
  /\ UNCHANGED <<disk, template, persisted, panicLimit, pals, activePal,
                 currentWebview, title, regPc, choose, del, wv>>

(***************************************************************************)
(* The webview's message listener (lines 422-458).                         *)
(***************************************************************************)
Truthy(name) == name \notin {Null, Undefined, ""}

\* mutant of OnMessage: an image equal to the one rendered last is rendered
\* again
OnMessage_AlwaysRender(w, m) ==
  IF m.resetCurrentSrc
  THEN [w EXCEPT !.currentSrc = NullSrc, !.currentPal = m.activePalName]
  ELSE IF Truthy(w.currentPal) /\ m.activePalName # w.currentPal
  THEN w
  ELSE IF m.currentPicture = NoPicture
  THEN [w EXCEPT !.currentPal = m.activePalName, !.errorsText = m.numErrors]
  ELSE [w EXCEPT !.currentPal = m.activePalName,
                 !.errorsText = m.numErrors,
                 !.currentSrc = m.currentPicture,
                 !.visible = m.currentPicture,
                 !.showingPic1 = ~w.showingPic1]

OnMessage(w, m) ==
  IF m.resetCurrentSrc
  THEN [w EXCEPT !.currentSrc = NullSrc, !.currentPal = m.activePalName]
  ELSE IF Truthy(w.currentPal) /\ m.activePalName # w.currentPal
  THEN w
  ELSE IF m.currentPicture = NoPicture \/ m.currentPicture = w.currentSrc
  THEN [w EXCEPT !.currentPal = m.activePalName, !.errorsText = m.numErrors]
  ELSE [w EXCEPT !.currentPal = m.activePalName,
                 !.errorsText = m.numErrors,
                 !.currentSrc = m.currentPicture,
                 !.visible = m.currentPicture,
                 !.showingPic1 = ~w.showingPic1]

\* the webview handles the oldest posted message
Deliver ==
  /\ queue # <<>>
  /\ wv' = OnMessage(wv, Head(queue))
  /\ queue' = Tail(queue)
  /\ last' = <<"deliver", Undefined>>
  /\ UNCHANGED <<disk, template, persisted, panicLimit, numErrors, pals,
                 activePal, currentWebview, title, lastNumErrors,
                 currentPicture, regPc, choose, del, targetLevel>>
(***************************************************************************)
(* registerPal (lines 122-174).                                            *)
(***************************************************************************)
\* mutant of palExists: the check for an existing folder is missing
palExists_Never(dk, palName) == FALSE

\* fs.existsSync(palDir) (lines 129-130)
palExists(dk, palName) == palName \in DOMAIN dk

\* mutant of copyRecursiveSync: nothing is copied
copyRecursiveSync_Nothing(dk, palName, tpl) == dk

\* copyRecursiveSync(templateDir, palDir) for a palDir that does not exist
copyRecursiveSync(dk, palName, tpl) ==
  [n \in DOMAIN dk \cup {palName} |-> IF n = palName THEN tpl ELSE dk[n]]

registerPalStart ==
  /\ regPc = "idle"
  /\ regPc' = "input"
  /\ last' = <<"registerStart", Undefined>>
  /\ UNCHANGED <<disk, template, persisted, panicLimit, numErrors, pals,
                 activePal, currentWebview, title, lastNumErrors,
                 currentPicture, choose, del, queue, wv, targetLevel>>

\* lines 127-161: the input box is answered with palName
registerPalInput(palName) ==
  /\ regPc = "input"
  /\ CaughtUp
  /\ IF palName \in {Undefined, ""} \/ palExists(disk, palName)
        \/ template = NoTemplate
     THEN /\ regPc' = "idle"
          /\ last' = <<"registerRejected", palName>>
          /\ UNCHANGED <<disk, persisted, pals, activePal, title, queue,
                         targetLevel>>
     ELSE /\ disk' = copyRecursiveSync(disk, palName, template[1])
          /\ pals' = Append(pals, palName)
          /\ activePal' = palName
          /\ persisted' = palName
          /\ title' = IF currentWebview THEN palName ELSE title
          /\ \E r \in refreshWebview(palName, disk', targetLevel) :
               /\ targetLevel' = r[1]
               /\ queue' = queue \o resetWebview(palName) \o r[2]
          /\ regPc' = "info"
          /\ last' = <<"registered", palName>>
  /\ UNCHANGED <<template, panicLimit, numErrors, currentWebview,
                 lastNumErrors, currentPicture, choose, del, wv>>

\* lines 164-173: the information message is answered or dismissed
registerPalInfo ==
  /\ regPc = "info"
  /\ CaughtUp
  /\ \E r \in refreshWebview(activePal, disk, targetLevel) :
       /\ targetLevel' = r[1]
       /\ queue' = queue \o r[2]
  /\ regPc' = "idle"
  /\ last' = <<"registerInfo", Undefined>>
  /\ UNCHANGED <<disk, template, persisted, panicLimit, numErrors, pals,
                 activePal, currentWebview, title, lastNumErrors,
                 currentPicture, choose, del, wv>>

(***************************************************************************)
(* choosePal (lines 177-209).                                              *)
(***************************************************************************)
\* lines 179-188: rescan and show the quick pick
choosePalStart ==
  /\ choose.pc = "idle"
  /\ pals' = loadPals(disk)
  /\ choose' = IF Len(pals') = 0 THEN IdleChoose
               ELSE [pc |-> "pick", items |-> pals']
  /\ last' = <<"chooseStart", Undefined>>
  /\ UNCHANGED <<disk, template, persisted, panicLimit, numErrors, activePal,
                 currentWebview, title, lastNumErrors, currentPicture, regPc,
                 del, queue, wv, targetLevel>>

\* lines 189-208: an item is picked, or the quick pick is dismissed
choosePalPick(picked) ==
  /\ choose.pc = "pick"
  /\ picked = Undefined \/ InSeq(picked, choose.items)
  /\ CaughtUp
  /\ choose' = IdleChoose
  /\ IF picked = Undefined
     THEN /\ last' = <<"chooseCancelled", Undefined>>
          /\ UNCHANGED <<persisted, activePal, title, queue, targetLevel>>
     ELSE /\ activePal' = FindPal(pals, picked)
          /\ persisted' = IF activePal' # Undefined THEN activePal'
                          ELSE persisted
          /\ title' = IF activePal' # Undefined /\ currentWebview
                      THEN activePal' ELSE title
          /\ \E r \in refreshWebview(activePal', disk, targetLevel) :
               /\ targetLevel' = r[1]
               /\ queue' = queue \o resetWebview(Undefined) \o r[2]
          /\ last' = <<"chosen", picked>>
  /\ UNCHANGED <<disk, template, panicLimit, numErrors, pals, currentWebview,
                 lastNumErrors, currentPicture, regPc, del, wv>>
(***************************************************************************)
(* deletePal (lines 211-264).                                              *)
(***************************************************************************)
\* lines 213-222: rescan and show the quick pick
deletePalStart ==
  /\ del.pc = "idle"
  /\ pals' = loadPals(disk)
  /\ del' = IF Len(pals') = 0 THEN IdleDel
            ELSE [pc |-> "pick", items |-> pals', target |-> Undefined]
  /\ last' = <<"deleteStart", Undefined>>
  /\ UNCHANGED <<disk, template, persisted, panicLimit, numErrors, activePal,
                 currentWebview, title, lastNumErrors, currentPicture, regPc,
                 choose, queue, wv, targetLevel>>

\* lines 223-232: an item is picked (or not) and the warning dialog opens
deletePalPick(picked) ==
  /\ del.pc = "pick"
  /\ picked = Undefined \/ InSeq(picked, del.items)
  /\ del' = IF picked = Undefined \/ FindPal(pals, picked) = Undefined
            THEN IdleDel
            ELSE [pc |-> "confirm", items |-> <<>>, target |-> picked]
  /\ last' = <<"deletePick", picked>>
  /\ UNCHANGED <<disk, template, persisted, panicLimit, numErrors, pals,
                 activePal, currentWebview, title, lastNumErrors,
                 currentPicture, regPc, choose, queue, wv, targetLevel>>

\* mutant of rmSync: the folder is left in place
rmSync_Keep(dk, name) == dk

\* mutant of rmSync: every pal folder is removed
rmSync_All(dk, name) == [n \in {} |-> dk[n]]

\* the pals directory after fs.rmSync(path, {recursive, force})
rmSync(dk, name) == [n \in DOMAIN dk \ {name} |-> dk[n]]

\* lines 243-245: persisted name after the active pal was deleted
savedName(ap) == IF ap # Undefined THEN ap ELSE ""

\* lines 234-263: the warning dialog is answered
deletePalConfirm(confirmed) ==
  /\ del.pc = "confirm"
  /\ CaughtUp
  /\ del' = IdleDel
  /\ IF ~confirmed
     THEN /\ last' = <<"deleteCancelled", del.target>>
          /\ UNCHANGED <<disk, persisted, pals, activePal, title, queue,
                         targetLevel>>
     ELSE /\ disk' = rmSync(disk, del.target)
          /\ pals' = SelectSeq(pals, LAMBDA n : n # del.target)
          /\ activePal' = IF activePal = del.target THEN FirstPal(pals')
                          ELSE activePal
          /\ persisted' = IF activePal = del.target THEN savedName(activePal')
                          ELSE persisted
          /\ title' = IF currentWebview THEN TitleOf(activePal') ELSE title
          /\ \E r1 \in refreshWebview(activePal', disk', targetLevel) :
               \E r2 \in refreshWebview(activePal', disk', r1[1]) :
                 /\ targetLevel' = r2[1]
                 /\ queue' = queue
                      \o (IF activePal = del.target
                          THEN resetWebview(activePal') ELSE <<>>)
                      \o r1[2] \o r2[2]
          /\ last' = <<IF activePal = del.target THEN "deletedActive"
                       ELSE "deleted", del.target>>
  /\ UNCHANGED <<template, panicLimit, numErrors, currentWebview,
                 lastNumErrors, currentPicture, regPc, choose, wv>>

(***************************************************************************)
(* Restart of the extension host: deactivate, then activate again.         *)
(***************************************************************************)
Restart ==
  /\ last[1] \notin {"activate", "restart"}
  /\ pals' = loadPals(disk)
  /\ activePal' = RestoreActivePal(pals', persisted)
  /\ currentWebview' = FALSE
  /\ title' = "none"
  /\ lastNumErrors' = -1
  /\ currentPicture' = NoPicture
  /\ regPc' = "idle"
  /\ choose' = IdleChoose
  /\ del' = IdleDel
  /\ queue' = <<>>
  /\ wv' = InitWv
  /\ targetLevel' = NoLevel
  /\ last' = <<"restart", Undefined>>
  /\ UNCHANGED <<disk, template, persisted, panicLimit, numErrors>>

\* no handler is suspended at a quick input or at the modal warning dialog
\* (the information message of registerPal is a notification and stays open)
PromptIdle == regPc # "input" /\ choose.pc = "idle" /\ del.pc = "idle"

\* The command handlers over the pal names `names`.  Commands are invoked one
\* at a time: the host shows one quick input at a time and the warning dialog
\* is modal, so a command starts when no other handler waits at one.
Commands(names) ==
  \/ PromptIdle /\ regPc = "idle" /\ registerPalStart
  \/ \E palName \in names \cup {"", Undefined} : registerPalInput(palName)
  \/ registerPalInfo
  \/ PromptIdle /\ choosePalStart
  \/ \E picked \in names \cup {Undefined} : choosePalPick(picked)
  \/ PromptIdle /\ deletePalStart
  \/ \E picked \in names \cup {Undefined} : deletePalPick(picked)
  \/ \E confirmed \in BOOLEAN : deletePalConfirm(confirmed)

\* Diagnostics events and message delivery interleave freely with the steps
\* of the running handler.
Next ==
  \/ resolveWebviewView
  \/ \E n \in 0..MaxErrors : DiagnosticsChanged(n)
  \/ Deliver
  \/ Commands(SpecNames)
  \/ Restart

Spec == Init /\ [][Next]_vars
(***************************************************************************)
(* SpecLevel: level selection over wide inputs.  One pal whose level       *)
(* folders, the error count and the panic limit are drawn from bounded     *)
(* sets; the view is opened, which runs updateDiagnostics and getPicture.  *)
(***************************************************************************)
LevelSets ==
  (SUBSET (0..MaxSmallLevel) \ {{}})
    \cup {0..k : k \in 0..MaxLevel} \cup {{k} : k \in 0..MaxLevel}

InitLevel ==
  /\ \E S \in LevelSets : disk = ("a" :> [l \in S |-> 1])
  /\ template = NoTemplate
  /\ persisted = "a"
  /\ panicLimit \in 1..MaxLimitLevel
  /\ numErrors \in 0..MaxErrorsLevel
  /\ Activated

NextLevel == resolveWebviewView

SpecLevel == InitLevel /\ [][NextLevel]_vars

(***************************************************************************)
(* SpecStore: the pal store and the active pal over three pal names, with  *)
(* the view never opened.                                                  *)
(***************************************************************************)
InitStore ==
  /\ disk \in UNION {[S -> {TemplateLayout}] : S \in SUBSET NameSet}
  /\ template \in {NoTemplate, <<TemplateLayout>>}
  /\ persisted \in {Undefined, ""} \cup NameSet
  /\ panicLimit \in PanicLimits
  /\ numErrors = 0
  /\ Activated

NextStore == Commands(NameSet) \/ Restart

SpecStore == InitStore /\ [][NextStore]_vars
\* getPicture never reads the folder of a pal that is not on disk (holds in
\* Spec, SpecLevel and SpecStore)
ActivePalOnDisk == activePal # Undefined => activePal \in DOMAIN disk

(***************************************************************************)
(* Level selection (SpecLevel).                                            *)
(***************************************************************************)
\* getPicture has just selected a level for numErrors
Selected == last[1] = "resolve" /\ targetLevel # NoLevel

\* the level folders of the active pal
Levels == DOMAIN disk[activePal]

IsMaxLevel(l) == l \in Levels /\ \A k \in Levels : k <= l

BelowPanic == 0 < numErrors /\ numErrors < panicLimit

\* C1 as stated: every error count with 0 < errorCount < panicLimit selects a
\* level L with 1 <= L <= maxLevel, also when the only level present is 0.
C1_AtLeastOne ==
  Selected /\ BelowPanic =>
    1 <= targetLevel /\ \E m \in Levels : IsMaxLevel(m) /\ targetLevel <= m

\* C1 amended: with 0 < errorCount < panicLimit the selected level L is at
\* most maxLevel, and at least 1 unless maxLevel = 0, where L = 0.
C1_ClampedLevel ==
  Selected /\ BelowPanic =>
    \E m \in Levels :
      /\ IsMaxLevel(m)
      /\ targetLevel <= m
      /\ IF m = 0 THEN targetLevel = 0 ELSE 1 <= targetLevel

C1_Witness ==
  /\ Selected /\ BelowPanic
  /\ 1 < targetLevel
  /\ \E m \in Levels : targetLevel < m

\* C2 as stated: for a pal whose only level folder is 0, an error count with
\* 0 < errorCount < panicLimit yields no image.
C2_NoImageForOnlyZero ==
  Selected /\ BelowPanic /\ Levels = {0} => currentPicture = NoPicture

\* C2 amended: for a pal whose only level folder is 0, an error count with
\* 0 < errorCount < panicLimit selects level 0 and yields an image of folder
\* 0 whenever that folder holds an image.
C2_OnlyZeroShowsZero ==
  Selected /\ BelowPanic /\ Levels = {0} =>
    /\ targetLevel = 0
    /\ disk[activePal][0] > 0 =>
         /\ currentPicture # NoPicture
         /\ currentPicture[1] = activePal
         /\ currentPicture[2] = 0

C2_Witness ==
  /\ Selected /\ BelowPanic /\ Levels = {0}
  /\ currentPicture # NoPicture

\* C3: errorCount = 0 selects level 0; the image comes from folder 0, and
\* there is no image if folder 0 is absent.
C3_ZeroSelectsZero ==
  Selected /\ numErrors = 0 =>
    /\ targetLevel = 0
    /\ 0 \notin Levels => currentPicture = NoPicture
    /\ currentPicture # NoPicture => currentPicture[2] = 0
    /\ (0 \in Levels /\ disk[activePal][0] > 0) => currentPicture # NoPicture

C3_Witness ==
  /\ Selected /\ numErrors = 0 /\ 0 \in Levels /\ 2 \in Levels
  /\ currentPicture # NoPicture

\* C4: every errorCount >= panicLimit selects the maximum level present.
C4_PanicSelectsMax ==
  Selected /\ numErrors >= panicLimit => IsMaxLevel(targetLevel)

C4_Witness ==
  /\ Selected /\ numErrors > panicLimit /\ targetLevel > 1
  /\ 0 \notin Levels

\* C5: for a fixed panic limit and level set the selected level is
\* non-decreasing in the error count: no smaller error count selects a higher
\* level than the one selected for numErrors.
C5_Monotone ==
  Selected =>
    \A m \in Levels : IsMaxLevel(m) =>
      \A e \in 0..numErrors : selectLevel(e, panicLimit, m) <= targetLevel

C5_Witness ==
  /\ Selected /\ BelowPanic /\ targetLevel > 1
  /\ \E m \in Levels : IsMaxLevel(m) /\ targetLevel < m
  /\ \E e \in 1..numErrors :
       selectLevel(e, panicLimit, SetMax(Levels)) < targetLevel

\* C6: for 0 < errorCount < panicLimit the selected level equals
\* clamp(floor(errorCount * maxLevel / panicLimit), 1, maxLevel); with levels
\* {0,1,2,3} and panic limit 10 the error counts 0, 4, 7, 10, 15 select the
\* levels 0, 1, 2, 3, 3.
C6_ExactFloor ==
  Selected =>
    /\ BelowPanic =>
         \A m \in Levels : IsMaxLevel(m) =>
           targetLevel = Min(Max(1, (numErrors * m) \div panicLimit), m)
    /\ (Levels = 0..3 /\ panicLimit = 10) =>
         /\ numErrors = 0 => targetLevel = 0
         /\ numErrors = 4 => targetLevel = 1
         /\ numErrors = 7 => targetLevel = 2
         /\ numErrors \in {10, 15} => targetLevel = 3
(***************************************************************************)
(* The reset protocol (Spec).                                              *)
(***************************************************************************)
\* the messages posted by the step
Posted == SubSeq(queue', Len(queue) + 1, Len(queue'))

\* a command handler changed the active pal while the view exists
SwitchStep == activePal' # activePal /\ currentWebview /\ currentWebview'

\* the webview handles message m in this step
Handles(m) == last'[1] = "deliver" /\ queue # <<>> /\ m = Head(queue)

\* C7: a step that switches the active pal while the view exists posts a
\* reset first and then only data messages, which carry the new pal's name;
\* and a webview that has handled a reset renders the next non-empty image it
\* is sent, whatever image it rendered last.
C7_ResetBeforeImage ==
  [][/\ SwitchStep =>
          /\ Len(Posted) >= 2
          /\ Posted[1].resetCurrentSrc
          /\ \A i \in 2..Len(Posted) :
               /\ ~Posted[i].resetCurrentSrc
               /\ Posted[i].activePalName = activePal'
     /\ \A m \in {Head(queue) : x \in {1} \cap DOMAIN queue} :
          (/\ Handles(m)
           /\ ~m.resetCurrentSrc
           /\ wv.currentSrc = NullSrc
           /\ m.currentPicture # NoPicture) =>
            /\ wv'.visible = m.currentPicture
            /\ wv'.currentSrc = m.currentPicture
            /\ wv'.showingPic1 # wv.showingPic1]_vars

\* the view is about to be sent again the image it rendered before a switch
C7_Witness ==
  /\ wv.currentSrc = NullSrc
  /\ wv.visible # NoPicture
  /\ queue # <<>>
  /\ ~Head(queue).resetCurrentSrc
  /\ Head(queue).currentPicture = wv.visible
  /\ Head(queue).activePalName = activePal

\* C8: after the webview handles a reset (the latest one posted), it has
\* forgotten its last image reference and its remembered pal name equals the
\* extension's active pal name.
C8_ResetRemembersActivePal ==
  [][\A m \in {Head(queue) : x \in {1} \cap DOMAIN queue} :
       (/\ Handles(m)
        /\ m.resetCurrentSrc
        /\ \A i \in 2..Len(queue) : ~queue[i].resetCurrentSrc) =>
         /\ wv'.currentSrc = NullSrc
         /\ wv'.currentPal = activePal']_vars

(***************************************************************************)
(* The pal store (SpecStore, Spec).                                        *)
(***************************************************************************)
\* the first pal of the store listing of dk, or Undefined
FirstOfStore(dk) ==
  IF DOMAIN dk = {} THEN Undefined
  ELSE PalNames[CHOOSE i \in 1..Len(PalNames) :
         /\ PalNames[i] \in DOMAIN dk
         /\ \A j \in 1..(i - 1) : PalNames[j] \notin DOMAIN dk]

\* C9: deleting the active pal makes the first remaining pal of the store
\* active, or none if no pal remains, and activation against the same store
\* and persisted name resolves to that same active pal.
C9_DeleteActive ==
  [][last'[1] = "deletedActive" =>
       /\ activePal' = FirstOfStore(disk')
       /\ RestoreActivePal(loadPals(disk'), persisted') = activePal']_vars

\* the active pal was deleted and a pal that is not the last one took over
C9_Witness ==
  /\ last[1] = "deletedActive"
  /\ Cardinality(DOMAIN disk) = 2
  /\ activePal = FirstOfStore(disk)
  /\ last[2] \notin DOMAIN disk

\* C10: registering a name that exists in the store changes nothing: the
\* pals directory, the pal list, the active pal and the persisted name are
\* unchanged and no message is posted.
C10_DuplicateRejected ==
  [][(regPc = "input" /\ regPc' # "input" /\ last'[2] \in DOMAIN disk) =>
       UNCHANGED <<disk, pals, activePal, persisted, queue>>]_vars

C10_Witness ==
  /\ last[1] = "registerRejected"
  /\ last[2] \in DOMAIN disk
  /\ template # NoTemplate
  /\ currentWebview

\* the input box of register-pal is answered with a fresh name while the
\* template folder exists
RegisterFresh ==
  /\ regPc = "input" /\ regPc' # "input"
  /\ Truthy(last'[2])
  /\ last'[2] \notin DOMAIN disk
  /\ template # NoTemplate

\* C11: a successful register-pal (fresh name, template present) adds
\* exactly one pal with that name to the store and changes no other pal,
\* makes it the active pal and persists its name, so that activation against
\* the new store and persisted name resolves to the registered pal.
C11_RegisterFresh ==
  [][RegisterFresh =>
       /\ DOMAIN disk' = DOMAIN disk \cup {last'[2]}
       /\ \A n \in DOMAIN disk : disk'[n] = disk[n]
       /\ {pals'[i] : i \in DOMAIN pals'}
            = {pals[i] : i \in DOMAIN pals} \cup {last'[2]}
       /\ Cardinality({i \in DOMAIN pals' : pals'[i] = last'[2]}) = 1
       /\ activePal' = last'[2]
       /\ persisted' = last'[2]
       /\ RestoreActivePal(loadPals(disk'), persisted') = last'[2]]_vars

\* a pal was registered that is not the first of the store listing
C11_Witness ==
  /\ last[1] = "registered"
  /\ last[2] \in DOMAIN disk
  /\ activePal = last[2]
  /\ persisted = last[2]
  /\ FirstOfStore(disk) # last[2]

\* C12: the active pal is persisted across restarts: after any sequence of
\* register-pal, choose-active-pal and delete-pal commands, re-running
\* activation yields the active pal (or none) that was active before the
\* restart.
C12_RestartKeepsActivePal ==
  [][last'[1] = "restart" => activePal' = activePal]_vars

\* after a restart a pal is active that is not the first of the store
C12_Witness ==
  /\ last[1] = "restart"
  /\ activePal # Undefined
  /\ activePal # FirstOfStore(disk)

\* activate has just run (at startup or at a restart)
JustActivated == last[1] \in {"activate", "restart"}

\* C13: startup resolution of the active pal: if the persisted name matches
\* a pal in the store, that pal is active; if it is unset or matches no pal,
\* the first pal of the store listing is active; if the store is empty, the
\* active pal is none.
C13_StartupResolution ==
  JustActivated =>
    /\ persisted \in DOMAIN disk => activePal = persisted
    /\ persisted \notin DOMAIN disk => activePal = FirstOfStore(disk)
    /\ DOMAIN disk = {} => activePal = Undefined

\* activation found the persisted name, which is not the first of the store
C13_Witness ==
  /\ JustActivated
  /\ persisted \in DOMAIN disk
  /\ persisted # FirstOfStore(disk)
  /\ activePal = persisted

(***************************************************************************)
(* What the view shows (Spec).                                             *)
(***************************************************************************)
\* C14: when selection yields no image, the presentation surface shows
\* nothing: after the webview handles a data message without an image
\* reference it displays no image, whatever it rendered before.
C14_NoImageShowsNothing ==
  [][\A m \in {Head(queue) : x \in {1} \cap DOMAIN queue} :
       (/\ Handles(m)
        /\ ~m.resetCurrentSrc
        /\ m.currentPicture = NoPicture) =>
         wv'.visible = NoPicture]_vars

(***************************************************************************)
(* codepal.setPanicLimit (lines 47-66).  The text of the input box is a    *)
(* sequence of characters; a JavaScript number is NaN, Infinity,           *)
(* NegInfinity or JsNumber(n) for an integer n.                            *)
(***************************************************************************)
NaN == <<"NaN">>
Infinity == <<"Infinity">>
NegInfinity == <<"-Infinity">>
JsNumber(n) == <<"number", n>>

DecimalDigits ==
  {"0", "1", "2", "3", "4", "5", "6", "7", "8", "9"}
HexDigits ==
  DecimalDigits \cup {"a", "b", "c", "d", "e", "f", "A", "B", "C", "D", "E", "F"}
WhiteSpace == {" "}

DigitValue(c) ==
  CASE c = "0" -> 0 [] c = "1" -> 1 [] c = "2" -> 2 [] c = "3" -> 3
    [] c = "4" -> 4 [] c = "5" -> 5 [] c = "6" -> 6 [] c = "7" -> 7
    [] c = "8" -> 8 [] c = "9" -> 9

\* the text without the leading characters of set cs
DropLeading(s, cs) ==
  LET rest == {i \in 1..Len(s) : s[i] \notin cs}
  IN IF rest = {} THEN <<>>
     ELSE SubSeq(s, CHOOSE i \in rest : \A j \in rest : i <= j, Len(s))

\* the text without the trailing characters of set cs
DropTrailing(s, cs) ==
  LET rest == {i \in 1..Len(s) : s[i] \notin cs}
  IN IF rest = {} THEN <<>>
     ELSE SubSeq(s, 1, CHOOSE i \in rest : \A j \in rest : j <= i)

AllIn(s, cs) == \A i \in 1..Len(s) : s[i] \in cs

\* DecimalDigits of the StringNumericLiteral grammar
IsDigits(s) == Len(s) > 0 /\ AllIn(s, DecimalDigits)

\* ExponentPart: e or E, an optional sign, digits
IsExponentPart(s) ==
  /\ Len(s) >= 2
  /\ s[1] \in {"e", "E"}
  /\ IsDigits(IF s[2] \in {"+", "-"} THEN SubSeq(s, 3, Len(s)) ELSE Tail(s))

\* digits, digits with a fraction, or a fraction alone
IsMantissa(s) ==
  \/ IsDigits(s)
  \/ \E d \in 1..Len(s) :
       /\ s[d] = "."
       /\ AllIn(SubSeq(s, 1, d - 1), DecimalDigits)
       /\ AllIn(SubSeq(s, d + 1, Len(s)), DecimalDigits)
       /\ Len(s) > 1

IsInfinityLiteral(s) == s = <<"I", "n", "f", "i", "n", "i", "t", "y">>

\* StrUnsignedDecimalLiteral
IsUnsignedDecimal(s) ==
  \/ IsInfinityLiteral(s)
  \/ \E k \in 1..Len(s) :
       /\ IsMantissa(SubSeq(s, 1, k))
       /\ k = Len(s) \/ IsExponentPart(SubSeq(s, k + 1, Len(s)))

\* StrDecimalLiteral: an optional sign and an unsigned decimal literal
IsStrDecimal(s) ==
  /\ Len(s) > 0
  /\ IsUnsignedDecimal(IF s[1] \in {"+", "-"} THEN Tail(s) ELSE s)

\* NonDecimalIntegerLiteral: 0x, 0o or 0b and digits of that radix
IsNonDecimal(s) ==
  /\ Len(s) >= 3
  /\ s[1] = "0"
  /\ LET digits == SubSeq(s, 3, Len(s)) IN
       \/ s[2] \in {"x", "X"} /\ AllIn(digits, HexDigits)
       \/ s[2] \in {"o", "O"}
            /\ AllIn(digits, {"0", "1", "2", "3", "4", "5", "6", "7"})
       \/ s[2] \in {"b", "B"} /\ AllIn(digits, {"0", "1"})

\* isNaN(Number(val)) for the text val (line 50): white space is trimmed, the
\* empty text is 0, and any other text must be a StringNumericLiteral
NumberIsNaN(val) ==
  LET t == DropTrailing(DropLeading(val, WhiteSpace), WhiteSpace)
  IN ~(t = <<>> \/ IsStrDecimal(t) \/ IsNonDecimal(t))

\* the decimal digits of 2^1024 - 2^970: an integer at or above it is
\* rounded to Infinity
InfinityThreshold ==
  <<1, 7, 9, 7, 6, 9, 3, 1, 3, 4, 8, 6, 2, 3, 1, 5, 8, 0, 7, 9, 3, 7, 2, 8, 9, 7, 1, 4, 0, 5, 3, 0,
     3, 4, 1, 5, 0, 7, 9, 9, 3, 4, 1, 3, 2, 7, 1, 0, 0, 3, 7, 8, 2, 6, 9, 3, 6, 1, 7, 3, 7, 7, 8, 9,
     8, 0, 4, 4, 4, 9, 6, 8, 2, 9, 2, 7, 6, 4, 7, 5, 0, 9, 4, 6, 6, 4, 9, 0, 1, 7, 9, 7, 7, 5, 8, 7,
     2, 0, 7, 0, 9, 6, 3, 3, 0, 2, 8, 6, 4, 1, 6, 6, 9, 2, 8, 8, 7, 9, 1, 0, 9, 4, 6, 5, 5, 5, 5, 4,
     7, 8, 5, 1, 9, 4, 0, 4, 0, 2, 6, 3, 0, 6, 5, 7, 4, 8, 8, 6, 7, 1, 5, 0, 5, 8, 2, 0, 6, 8, 1, 9,
     0, 8, 9, 0, 2, 0, 0, 0, 7, 0, 8, 3, 8, 3, 6, 7, 6, 2, 7, 3, 8, 5, 4, 8, 4, 5, 8, 1, 7, 7, 1, 1,
     5, 3, 1, 7, 6, 4, 4, 7, 5, 7, 3, 0, 2, 7, 0, 0, 6, 9, 8, 5, 5, 5, 7, 1, 3, 6, 6, 9, 5, 9, 6, 2,
     2, 8, 4, 2, 9, 1, 4, 8, 1, 9, 8, 6, 0, 8, 3, 4, 9, 3, 6, 4, 7, 5, 2, 9, 2, 7, 1, 9, 0, 7, 4, 1,
     6, 8, 4, 4, 4, 3, 6, 5, 5, 1, 0, 7, 0, 4, 3, 4, 2, 7, 1, 1, 5, 5, 9, 6, 9, 9, 5, 0, 8, 0, 9, 3,
     0, 4, 2, 8, 8, 0, 1, 7, 7, 9, 0, 4, 1, 7, 4, 4, 9, 7, 7, 9, 2>>

\* digits (without leading zeros) denote an integer that rounds to Infinity
RoundsToInfinity(digits) ==
  \/ Len(digits) > Len(InfinityThreshold)
  \/ /\ Len(digits) = Len(InfinityThreshold)
     /\ LET diff == {i \in 1..Len(digits) :
                       DigitValue(digits[i]) # InfinityThreshold[i]}
        IN \/ diff = {}
           \/ LET f == CHOOSE i \in diff : \A j \in diff : i <= j
              IN DigitValue(digits[f]) > InfinityThreshold[f]

RECURSIVE DecimalValue(_)
DecimalValue(digits) ==
  IF digits = <<>> THEN 0
  ELSE 10 * DecimalValue(SubSeq(digits, 1, Len(digits) - 1))
         + DigitValue(digits[Len(digits)])

\* parseInt(input, 10) (line 55): leading white space and a sign are
\* skipped and the longest prefix of decimal digits is read.  (Integers of
\* 10 to 308 digits are finite but beyond TLC's integers; the inputs drawn
\* below have fewer digits, or round to Infinity.)
parseInt(input) ==
  LET s == DropLeading(input, WhiteSpace)
      negative == Len(s) > 0 /\ s[1] = "-"
      body == IF Len(s) > 0 /\ s[1] \in {"+", "-"} THEN Tail(s) ELSE s
      stop == {i \in 1..Len(body) : body[i] \notin DecimalDigits}
      z == IF stop = {} THEN body
           ELSE SubSeq(body, 1, (CHOOSE i \in stop : \A j \in stop : i <= j) - 1)
      digits == DropLeading(z, {"0"})
  IN IF z = <<>> THEN NaN
     ELSE IF RoundsToInfinity(digits)
     THEN IF negative THEN NegInfinity ELSE Infinity
     ELSE JsNumber(IF negative THEN 0 - DecimalValue(digits)
                   ELSE DecimalValue(digits))

\* isNaN(newLimit) || newLimit <= 0 (line 56)
NotPositive(newLimit) ==
  \/ newLimit = NaN
  \/ newLimit = NegInfinity
  \/ newLimit[1] = "number" /\ newLimit[2] <= 0

\* the characters the texts typed into the input box are made of
Chars == {"0", "1", "9", "-", ".", "e", "x", " "}

\* a text of digits long enough to exceed every finite number
LongDigits == [i \in 1..Len(InfinityThreshold) |-> "9"]

\* the texts typed into the input box
Inputs ==
  UNION {[1..n -> Chars] : n \in 0..MaxInputLen} \cup {LongDigits}

\* showInputBox resolves to undefined when the box is dismissed
Dismissed == <<Undefined>>

\* line 48: the command is invoked and the input box opens.  The handler
\* has no variable of its own, so the open box is the latest step.
LimitPromptOpen == last[1] = "limitPrompt"

setPanicLimitStart ==
  /\ ~LimitPromptOpen
  /\ last' = <<"limitPrompt", Undefined>>
  /\ UNCHANGED <<disk, template, persisted, panicLimit, numErrors, pals,
                 activePal, currentWebview, title, lastNumErrors,
                 currentPicture, regPc, choose, del, queue, wv, targetLevel>>

\* lines 48-66: the input box is answered by input (a text, or Dismissed).
\* While validateInput returns a message the box shows it and cannot be
\* accepted.
setPanicLimitInput(input) ==
  /\ LimitPromptOpen
  /\ IF input # Dismissed /\ NumberIsNaN(input)
     THEN last' = <<"limitInvalid", input>> /\ UNCHANGED panicLimit
     ELSE IF input = Dismissed \/ input = <<>>
     THEN last' = <<"limitNoInput", input>> /\ UNCHANGED panicLimit
     ELSE IF NotPositive(parseInt(input))
     THEN last' = <<"limitRejected", input>> /\ UNCHANGED panicLimit
     ELSE last' = <<"limitSet", input>> /\ panicLimit' = parseInt(input)
  /\ UNCHANGED <<disk, template, persisted, numErrors, pals, activePal,
                 currentWebview, title, lastNumErrors, currentPicture, regPc,
                 choose, del, queue, wv, targetLevel>>

(***************************************************************************)
(* SpecConfig: the panic limit under set-panic-limit commands.             *)
(***************************************************************************)
\* config.get<number>('panicLimit', 30) (line 319)
DefaultPanicLimit == 30

InitConfig ==
  /\ disk = [n \in {} |-> NoLevelsLayout]
  /\ template = <<TemplateLayout>>
  /\ persisted = Undefined
  /\ panicLimit \in {JsNumber(l) : l \in PanicLimits \cup {DefaultPanicLimit}}
  /\ numErrors = 0
  /\ Activated

NextConfig ==
  \/ setPanicLimitStart
  \/ /\ LimitPromptOpen
     /\ \E input \in Inputs \cup {Dismissed} : setPanicLimitInput(input)

SpecConfig == InitConfig /\ [][NextConfig]_vars

\* the configured panic limit is a positive integer
IsPositiveInteger(limit) == limit[1] = "number" /\ limit[2] > 0

\* C15: set-panic-limit with invalid input (non-numeric or non-positive) is
\* reported and leaves the configured panic limit unchanged; consequently,
\* after any sequence of set-panic-limit commands the configured panic limit
\* is a positive integer.
C15_PanicLimitPositive ==
  [][/\ last'[1] \in {"limitInvalid", "limitRejected"} =>
          panicLimit' = panicLimit
     /\ IsPositiveInteger(panicLimit')]_vars

\* C16: when the webview handles a data message whose image reference
\* equals the one it rendered last, as on a diagnostics or editor event that
\* selects the same image, it performs no re-render: the displayed image and
\* the crossfade slot toggle are unchanged.
C16_NoRerender ==
  [][\A m \in {Head(queue) : x \in {1} \cap DOMAIN queue} :
       (/\ Handles(m)
        /\ ~m.resetCurrentSrc
        /\ m.currentPicture = wv.currentSrc) =>
         /\ wv'.visible = wv.visible
         /\ wv'.showingPic1 = wv.showingPic1
         /\ wv'.currentSrc = wv.currentSrc]_vars

\* a diagnostics event has posted again the image the view displays
C16_Witness ==
  /\ last[1] = "diagnostics"
  /\ Len(queue) = 1
  /\ ~Head(queue).resetCurrentSrc
  /\ Head(queue).currentPicture = wv.currentSrc
  /\ Head(queue).activePalName = wv.currentPal
  /\ wv.currentSrc # NoPicture
  /\ wv.visible = wv.currentSrc

\* C17: every data message posted to the webview carries an image reference
\* that is empty or an image under the folder of the pal named in that
\* message's activePalName; a diagnostics event with an unchanged error
\* count after a pal switch does not send the previous pal's image again.
C17_ImageOfNamedPal ==
  [][\A i \in 1..Len(Posted) :
       ~Posted[i].resetCurrentSrc =>
         \/ Posted[i].currentPicture = NoPicture
         \/ Posted[i].currentPicture[1] = Posted[i].activePalName]_vars

(***************************************************************************)
(* SpecInterleaved: the three command handlers with nothing keeping a      *)
(* command from starting while another handler waits at its prompt or      *)
(* confirmation; the view is never opened.                                 *)
(***************************************************************************)
Handlers(names) ==
  \/ registerPalStart
  \/ \E palName \in names \cup {"", Undefined} : registerPalInput(palName)
  \/ registerPalInfo
  \/ choosePalStart
  \/ \E picked \in names \cup {Undefined} : choosePalPick(picked)
  \/ deletePalStart
  \/ \E picked \in names \cup {Undefined} : deletePalPick(picked)
  \/ \E confirmed \in BOOLEAN : deletePalConfirm(confirmed)

NextInterleaved == Handlers(NameSet) \/ Restart

SpecInterleaved == InitStore /\ [][NextInterleaved]_vars

HandlersIdle == regPc = "idle" /\ choose = IdleChoose /\ del = IdleDel

\* C19: after activation and after every completed register-pal,
\* choose-active-pal or delete-pal command (handlers run one at a time): the
\* active pal, if any, names a pal that exists in the store; the active pal is
\* none if and only if the store is empty; and the names in the in-memory pal
\* list are pairwise distinct.
C19_StoreConsistent ==
  HandlersIdle =>
    /\ activePal # Undefined =>
         activePal \in DOMAIN disk /\ InSeq(activePal, pals)
    /\ activePal = Undefined <=> DOMAIN disk = {}
    /\ \A i, j \in DOMAIN pals : i # j => pals[i] # pals[j]

\* a pal was deleted and the active pal is not the first of the store
C19_Witness ==
  /\ HandlersIdle
  /\ last[1] = "deleted"
  /\ activePal # Undefined
  /\ activePal # FirstOfStore(disk)
  /\ Len(pals) = 2

\* C20: deleting a pal that is not the active pal removes only that pal from
\* the store, leaves the active pal and the persisted name unchanged and
\* posts no reset; cancelling the selection prompt or the confirmation dialog
\* of delete-pal leaves the store, the active pal and the persisted name
\* unchanged.
C20_DeleteOther ==
  [][/\ (/\ del.pc = "confirm"
         /\ last'[1] \in {"deleted", "deletedActive"}
         /\ del.target # activePal) =>
          /\ del.target \in DOMAIN disk
          /\ DOMAIN disk' = DOMAIN disk \ {del.target}
          /\ \A n \in DOMAIN disk' : disk'[n] = disk[n]
          /\ activePal' = activePal
          /\ persisted' = persisted
          /\ \A i \in 1..Len(Posted) : ~Posted[i].resetCurrentSrc
     /\ (\/ last'[1] = "deleteCancelled"
         \/ last'[1] = "deletePick" /\ last'[2] = Undefined) =>
          UNCHANGED <<disk, activePal, persisted>>]_vars

\* a pal other than the active one was deleted while the view is open
C20_Witness ==
  /\ last[1] = "deleted"
  /\ currentWebview
  /\ last[2] \notin DOMAIN disk
  /\ activePal \in DOMAIN disk
  /\ persisted = activePal
  /\ queue # <<>>
====
